---- MODULE Spec2Model ----
(***************************************************************************)
(* Model of the two issue-forwarding scripts, script/issue_to_feishu.py    *)
(* and script/issue_to_mysql.py.  Every invocation of a script is a run;   *)
(* a run is a straight-line sequence of steps, each remote call being one  *)
(* step.  The Feishu Bitable table and the MySQL table github_issues are   *)
(* the destinations the runs act on.                                       *)
(*                                                                         *)
(* Python values: a str is [str |-> <<characters>>], None is the record    *)
(* None below, an int is an integer, a dict is a function from its keys.   *)
(***************************************************************************)
EXTENDS Integers, Sequences, FiniteSets, TLC

VARIABLES
    started,        \* number of runs started so far
    pc,             \* pc[r]: the step run r is at
    script,         \* script[r]: "feishu" or "mysql"
    environ,        \* environ[r]: the process environment of run r
    event_file,     \* event_file[r]: the parsed content of GITHUB_EVENT_PATH
    locals,         \* locals[r]: the local variables of main() that later steps use
    sent,           \* sent[r]: the HTTP requests run r has sent and their answers, in order
    raised,         \* raised[r]: how the run ended: "", "SystemExit" or "Exception"
    bitable,        \* the Feishu table: a sequence of [record_id, fields]
    table_exists,   \* whether table github_issues exists
    github_issues,  \* the committed rows of github_issues, in insertion order
    txn,            \* txn[r]: the uncommitted effect of run r's transaction
    row_lock,       \* row_lock[id]: the run holding the lock of the row, or 0
    conn,           \* conn[r]: the calls run r has made to the database, in order
    now,            \* the latest CURRENT_TIMESTAMP the database server has used
    arg,            \* extractor check: the event handed to the extractors
    result          \* extractor check: what the extractors returned

vars == <<started, pc, script, environ, event_file, locals, sent, raised, bitable,
          table_exists, github_issues, txn, row_lock, conn, now, arg, result>>

-----------------------------------------------------------------------------
(* Bounds *)

MaxRuns == 3          \* runs started one after the other in one behaviour
MaxOverlapping == 2   \* runs started in a behaviour in which runs overlap
MaxClock == 2         \* values of CURRENT_TIMESTAMP
MaxLabels == 2        \* entries of a labels / assignees list
MaxExtra == 3         \* body lengths checked on either side of the limit

BodyLimit == 5000     \* the limit main() passes to _truncate

-----------------------------------------------------------------------------
(* Python values *)

None == [none |-> TRUE]

Str(s) == [str |-> s]

\* truth value of an optional string (`if value`, `if not value`)
Truthy(v) == v # None /\ v # Str(<<>>)

\* dict.get(key), default None
Get(d, key) == IF key \in DOMAIN d THEN d[key] ELSE None

\* dict.get(key, default)
GetOr(d, key, default) == IF key \in DOMAIN d THEN d[key] ELSE default

\* value[:n]
SliceTo(s, n) ==
    LET stop == IF n < 0 THEN (IF Len(s) + n < 0 THEN 0 ELSE Len(s) + n)
                ELSE (IF n > Len(s) THEN Len(s) ELSE n)
    IN  SubSeq(s, 1, stop)

DigitChars == <<"0", "1", "2", "3", "4", "5", "6", "7", "8", "9">>

RECURSIVE Digits(_)
Digits(n) ==
    IF n < 10 THEN <<DigitChars[n + 1]>>
    ELSE Digits(n \div 10) \o <<DigitChars[(n % 10) + 1]>>

\* str(issue_id) of a non-negative int
str(n) == Str(Digits(n))

\* sep.join(parts), parts a sequence of str
RECURSIVE join(_, _)
join(sep, parts) ==
    IF parts = <<>> THEN Str(<<>>)
    ELSE IF Len(parts) = 1 THEN parts[1]
    ELSE Str(parts[1].str \o sep \o join(sep, Tail(parts)).str)

CommaSpace == <<",", " ">>

\* json.dumps of a str of plain characters: the characters between quotes
json_dumps_str(s) == Str(<<"\"">> \o s.str \o <<"\"">>)

\* json.dumps(list of str): "[" item ", " item ... "]"
json_dumps_list(names) ==
    Str(<<"[">>
        \o join(CommaSpace, [i \in 1..Len(names) |-> json_dumps_str(names[i])]).str
        \o <<"]">>)

\* json.dumps of the event: the JSON text of that object
json_dumps(obj) == [json |-> obj]

-----------------------------------------------------------------------------
(* Timestamps.  The text of a GitHub timestamp is [ts |-> <<hour, zone>>],   *)
(* zone one of the suffixes below; hours stand for the whole date and time.  *)

ZoneHours(zone) ==
    CASE zone = "+00:00" -> 0
      [] zone = "+02:00" -> 2
      [] zone = "-01:00" -> 0 - 1

\* value.replace("Z", "+00:00")
replace_Z(text) == [ts |-> <<text.ts[1], IF text.ts[2] = "Z" THEN "+00:00" ELSE text.ts[2]>>]

\* datetime.fromisoformat(text).astimezone(timezone.utc): the hour in UTC
fromisoformat_utc(text) == text.ts[1] - ZoneHours(text.ts[2])

\* issue_to_feishu._parse_github_timestamp: the isoformat() text of the UTC time
feishu_parse_github_timestamp(value) ==
    IF value = None \/ value = Str(<<>>) THEN None
    ELSE [ts |-> <<fromisoformat_utc(replace_Z(value)), "+00:00">>]

\* issue_to_mysql._parse_github_timestamp: the UTC datetime
mysql_parse_github_timestamp(value) ==
    IF value = None \/ value = Str(<<>>) THEN None
    ELSE [datetime |-> fromisoformat_utc(replace_Z(value)), tzinfo |-> "UTC"]

-----------------------------------------------------------------------------
(* The field extractor of both scripts *)

\* variant: the comprehension filtering on `is not None`
RECURSIVE names_of_present(_, _)
names_of_present(dicts, key) ==
    IF dicts = <<>> THEN <<>>
    ELSE (IF Get(Head(dicts), key) # None THEN <<Get(Head(dicts), key)>> ELSE <<>>)
         \o names_of_present(Tail(dicts), key)

\* [d.get(key) for d in dicts if d.get(key)]
RECURSIVE names_of(_, _)
names_of(dicts, key) ==
    IF dicts = <<>> THEN <<>>
    ELSE (IF Truthy(Get(Head(dicts), key)) THEN <<Get(Head(dicts), key)>> ELSE <<>>)
         \o names_of(Tail(dicts), key)

\* variant: _truncate cutting at limit instead of limit - 3
_truncate_appends(value, limit) ==
    IF value = None THEN None
    ELSE IF Len(value.str) <= limit THEN value
    ELSE Str(SliceTo(value.str, limit) \o <<".", ".", ".">>)

_truncate(value, limit) ==
    IF value = None THEN None
    ELSE IF Len(value.str) <= limit THEN value
    ELSE Str(SliceTo(value.str, limit - 3) \o <<".", ".", ".">>)

FeishuLabels(issue) ==
    LET labels == names_of(GetOr(issue, "labels", <<>>), "name")
    IN  IF labels # <<>> THEN join(CommaSpace, labels) ELSE None

FeishuAssignees(issue) ==
    LET assignees == names_of(GetOr(issue, "assignees", <<>>), "login")
    IN  IF assignees # <<>> THEN join(CommaSpace, assignees) ELSE None

\* the dict `fields` of issue_to_feishu.main; a later key of the literal
\* replaces an earlier equal key
FeishuFields(event, issue_id_field) ==
    LET issue == event["issue"]
    IN  ( "Issue Number" :> Get(issue, "number")
       @@ "Title" :> Get(issue, "title")
       @@ "State" :> Get(issue, "state")
       @@ "URL" :> Get(issue, "html_url")
       @@ "User" :> Get(GetOr(issue, "user", <<>>), "login")
       @@ "Labels" :> FeishuLabels(issue)
       @@ "Assignees" :> FeishuAssignees(issue)
       @@ "Action" :> GetOr(event, "action", Str(<<"u", "n", "k", "n", "o", "w", "n">>))
       @@ "Created At" :> feishu_parse_github_timestamp(Get(issue, "created_at"))
       @@ "Updated At" :> feishu_parse_github_timestamp(Get(issue, "updated_at"))
       @@ "Closed At" :> feishu_parse_github_timestamp(Get(issue, "closed_at"))
       @@ "Body" :> _truncate(Get(issue, "body"), BodyLimit)
       @@ issue_id_field :> str(Get(issue, "id")) )

MysqlLabels(issue) == json_dumps_list(names_of(GetOr(issue, "labels", <<>>), "name"))

MysqlAssignees(issue) == json_dumps_list(names_of(GetOr(issue, "assignees", <<>>), "login"))

\* the parameters issue_to_mysql.main binds to the INSERT statement
MysqlParams(event) ==
    LET issue == event["issue"]
    IN  [ id |-> Get(issue, "id"),
          number |-> Get(issue, "number"),
          title |-> Get(issue, "title"),
          body |-> Get(issue, "body"),
          state |-> Get(issue, "state"),
          created_at |-> mysql_parse_github_timestamp(Get(issue, "created_at")),
          updated_at |-> mysql_parse_github_timestamp(Get(issue, "updated_at")),
          closed_at |-> mysql_parse_github_timestamp(Get(issue, "closed_at")),
          url |-> Get(issue, "html_url"),
          user_login |-> Get(GetOr(issue, "user", <<>>), "login"),
          labels |-> MysqlLabels(issue),
          assignees |-> MysqlAssignees(issue),
          event_action |-> GetOr(event, "action", Str(<<"u", "n", "k", "n", "o", "w", "n">>)),
          payload |-> json_dumps(event) ]

-----------------------------------------------------------------------------
(* Events *)

Chars(n, at) == [i \in 1..n |-> IF i = at THEN "b" ELSE "a"]

Bug == Str(<<"b", "u", "g">>)
P1 == Str(<<"P", "1">>)
Alice == Str(<<"a", "l", "i", "c", "e">>)
Bob == Str(<<"b", "o", "b">>)

\* a webhook delivery for issue `id`; the two versions differ in every field
Issue(id, version, labels, assignees, body) ==
    [ id |-> id,
      number |-> 40 + version,
      title |-> Str(<<"t", DigitChars[version + 1]>>),
      body |-> body,
      state |-> IF version = 1 THEN Str(<<"o", "p", "e", "n">>)
                ELSE Str(<<"c", "l", "o", "s", "e", "d">>),
      html_url |-> Str(<<"u", DigitChars[version + 1]>>),
      user |-> [login |-> IF version = 1 THEN Alice ELSE Bob],
      labels |-> labels,
      assignees |-> assignees,
      created_at |-> [ts |-> <<10 + version, IF version = 1 THEN "Z" ELSE "+02:00">>],
      updated_at |-> [ts |-> <<20 + version, IF version = 1 THEN "-01:00" ELSE "Z">>],
      closed_at |-> IF version = 1 THEN None ELSE [ts |-> <<30, "+00:00">>] ]

Event(id, version) ==
    [ action |-> IF version = 1 THEN Str(<<"o", "p", "e", "n", "e", "d">>)
                 ELSE Str(<<"c", "l", "o", "s", "e", "d">>),
      issue |-> Issue(id, version,
                      IF version = 1 THEN <<[name |-> Bug], [name |-> P1]>> ELSE <<>>,
                      IF version = 1 THEN <<[login |-> Alice]>> ELSE <<[login |-> Bob]>>,
                      IF version = 1 THEN Str(Chars(4, 1)) ELSE None) ]

IssueIds == {7, 12}

\* an event file without the "issue" key
PingEvent == [action |-> Str(<<"p", "i", "n", "g">>)]

Events == {Event(id, version) : id \in IssueIds, version \in {1, 2}} \cup {PingEvent}

\* inputs of the extractor check
SeqsUpTo(S, n) == UNION {[1..k -> S] : k \in 0..n}

LabelDicts == {[color |-> Str(<<"r">>)], [name |-> Str(<<>>)], [name |-> Bug], [name |-> P1]}

AssigneeDicts == {[id |-> 1], [login |-> Str(<<>>)], [login |-> Alice], [login |-> Bob]}

BodyLengths == (0..MaxExtra) \cup ((BodyLimit - MaxExtra)..(BodyLimit + MaxExtra))

Bodies ==
    {None} \cup {Str(Chars(n, at)) : n \in BodyLengths,
                                    at \in {0, 1, BodyLimit - 3, BodyLimit - 2, BodyLimit}}

BareEvent(issue) == [action |-> Str(<<"e", "d", "i", "t", "e", "d">>), issue |-> issue]

ExtractorInputs ==
    {BareEvent(Issue(7, 1, labels, assignees, Str(<<>>))) :
        labels \in SeqsUpTo(LabelDicts, MaxLabels),
        assignees \in SeqsUpTo(AssigneeDicts, MaxLabels)}
    \cup {BareEvent(Issue(7, 2, <<>>, <<>>, body)) : body \in Bodies}

-----------------------------------------------------------------------------
(* Process environment *)

FeishuRequired ==
    <<"GITHUB_EVENT_PATH", "FEISHU_APP_ID", "FEISHU_APP_SECRET", "FEISHU_APP_TOKEN",
      "FEISHU_TABLE_ID">>

MysqlConnectRequired == <<"MYSQL_HOST", "MYSQL_USER", "MYSQL_PASSWORD", "MYSQL_DATABASE">>

Range(f) == {f[i] : i \in DOMAIN f}

FullEnv(script_name) ==
    IF script_name = "feishu" THEN [n \in Range(FeishuRequired) |-> "x"]
    ELSE [n \in {"GITHUB_EVENT_PATH"} \cup Range(MysqlConnectRequired) |-> "x"]

\* environments with every required variable set, and each value of the toggle
ValidEnvironments(script_name) ==
    {FullEnv(script_name)}
    \cup (IF script_name = "feishu"
          THEN {FullEnv(script_name) @@ ("FEISHU_UPSERT" :> v) : v \in {"1", "0"}}
          ELSE {})

\* environments with one required variable unset or empty
InvalidEnvironments(script_name) ==
    LET full == FullEnv(script_name)
    IN  {[n \in DOMAIN full \ {m} |-> full[n]] : m \in DOMAIN full}
        \cup {[full EXCEPT ![m] = ""] : m \in DOMAIN full}

\* os.getenv(name, default)
getenv(env, name, default) == IF name \in DOMAIN env THEN env[name] ELSE default

\* variant: _env without the test for the empty string
_env_raises_unset_only(env, name) == name \notin DOMAIN env

\* _env(name) raises SystemExit
_env_raises(env, name) == name \notin DOMAIN env \/ env[name] = ""

\* whether one of the _env(name) calls made in the order `names` raises
any_env_raises(env, names) == \E i \in DOMAIN names : _env_raises(env, names[i])

-----------------------------------------------------------------------------
(* The Feishu Bitable service *)

Responses == {"ok", "http_error", "code_nonzero"}

RecordId(n) == Str(<<"r", "e", "c">> \o Digits(n))

\* records/search with one condition `field_name is value`, page_size 1
BitableSearchItems(table, field_name, value) ==
    LET hits == SelectSeq(table, LAMBDA rec : field_name \in DOMAIN rec.fields
                                              /\ rec.fields[field_name] = value)
    IN  SubSeq(hits, 1, IF Len(hits) > 1 THEN 1 ELSE Len(hits))

\* POST records: a new record under a fresh record id
BitableCreated(table, fields) ==
    Append(table, [record_id |-> RecordId(Len(table) + 1), fields |-> fields])

\* PUT records/{record_id}: the fields of that record are replaced
BitableUpdated(table, record_id, fields) ==
    [i \in DOMAIN table |->
        IF table[i].record_id = record_id THEN [table[i] EXCEPT !.fields = fields]
        ELSE table[i]]

-----------------------------------------------------------------------------
(* Runs *)

\* the processes that may be in flight at once: the claims are about two
Procs == {1, 2}

InFlight(r) == pc[r] \notin {"idle", "exit"}

\* an HTTP exchange: the request and how the service answered it
Request(method, endpoint, record_id, resp) ==
    [method |-> method, endpoint |-> endpoint, record_id |-> record_id, response |-> resp]

\* a call on mysql.connector, the connection or its cursor, and whether it returned
Call(name, ok) == [call |-> name, ok |-> ok]

\* a process is created: `python script/issue_to_<sink>.py`.  The two scripts
\* share nothing, so one behaviour runs one of them
Start(r, script_name, env, event) ==
    /\ ~InFlight(r)
    /\ \A q \in Procs : q < r => InFlight(q)
    /\ \A q \in Procs : script[q] \in {"", script_name}
    /\ started' = started + 1
    /\ pc' = [pc EXCEPT ![r] = "main"]
    /\ script' = [script EXCEPT ![r] = script_name]
    /\ environ' = [environ EXCEPT ![r] = env]
    /\ event_file' = [event_file EXCEPT ![r] = event]
    /\ locals' = [locals EXCEPT ![r] = None]
    /\ sent' = [sent EXCEPT ![r] = <<>>]
    /\ raised' = [raised EXCEPT ![r] = ""]
    /\ txn' = [txn EXCEPT ![r] = <<>>]
    /\ conn' = [conn EXCEPT ![r] = <<>>]
    /\ UNCHANGED <<bitable, table_exists, github_issues, row_lock, now, arg, result>>

\* main() goes on to its next step with the local variables `new_locals`
Continue(r, next_pc, new_locals) ==
    /\ pc' = [pc EXCEPT ![r] = next_pc]
    /\ locals' = [locals EXCEPT ![r] = new_locals]
    /\ UNCHANGED <<environ, event_file, raised>>

\* the process ends: its environment and the objects of main() are gone
Exit(r) ==
    /\ pc' = [pc EXCEPT ![r] = "exit"]
    /\ environ' = [environ EXCEPT ![r] = <<>>]
    /\ event_file' = [event_file EXCEPT ![r] = None]
    /\ locals' = [locals EXCEPT ![r] = None]

\* the run ends by an exception of class `class`
Raise(r, class) ==
    /\ Exit(r)
    /\ raised' = [raised EXCEPT ![r] = class]

\* main() returns
Return(r) ==
    /\ Exit(r)
    /\ UNCHANGED raised

-----------------------------------------------------------------------------
(* issue_to_feishu.py *)

\* main() up to the first request: configuration, event, fields
feishu_main(r) ==
    /\ pc[r] = "main" /\ script[r] = "feishu"
    /\ IF any_env_raises(environ[r], FeishuRequired) \/ "issue" \notin DOMAIN event_file[r]
       THEN Raise(r, "SystemExit")
       ELSE Continue(r, "token",
                LET issue_id_field == getenv(environ[r], "FEISHU_FIELD_ISSUE_ID", "Issue ID")
                IN  [ upsert |-> getenv(environ[r], "FEISHU_UPSERT", "1") = "1",
                      issue_id_field |-> issue_id_field,
                      issue_id |-> Get(event_file[r]["issue"], "id"),
                      fields |-> FeishuFields(event_file[r], issue_id_field),
                      record_id |-> None ])
    /\ UNCHANGED <<started, script, sent, bitable, table_exists, github_issues, txn,
                   row_lock, conn, now, arg, result>>

\* variant: the response's code is not checked
_request_json_ignores_code(r, request, next_pc, new_locals) ==
    /\ sent' = [sent EXCEPT ![r] = Append(@, request)]
    /\ IF request.response = "http_error" THEN Raise(r, "SystemExit")
       ELSE IF next_pc = "exit" THEN Return(r)
       ELSE Continue(r, next_pc, new_locals)

\* _request_json and the check of the response's code: the request is sent;
\* HTTPError or a non-zero code raises SystemExit
_request_json(r, request, next_pc, new_locals) ==
    /\ sent' = [sent EXCEPT ![r] = Append(@, request)]
    /\ IF request.response # "ok" THEN Raise(r, "SystemExit")
       ELSE IF next_pc = "exit" THEN Return(r)
       ELSE Continue(r, next_pc, new_locals)

\* _get_tenant_token: the token request and the check of its code
_get_tenant_token(r, resp) ==
    /\ pc[r] = "token"
    /\ _request_json(r, Request("POST", "tenant_access_token", None, resp),
                   IF locals[r].upsert THEN "search" ELSE "create", locals[r])
    /\ UNCHANGED <<started, script, bitable, table_exists, github_issues, txn, row_lock,
                   conn, now, arg, result>>

\* what _bitable_search returns for the response's items
SearchResult(items) == IF items = <<>> THEN None ELSE Get(items[1], "record_id")

\* _bitable_search, called by _bitable_upsert: the search request and its result
_bitable_search(r, resp) ==
    /\ pc[r] = "search"
    /\ _request_json(r, Request("POST", "records/search", None, resp), "upsert",
                   [locals[r] EXCEPT !.record_id =
                       SearchResult(BitableSearchItems(bitable, locals[r].issue_id_field,
                                                       str(locals[r].issue_id)))])
    /\ UNCHANGED <<started, script, bitable, table_exists, github_issues, txn, row_lock,
                   conn, now, arg, result>>

\* variant: _bitable_upsert without the update branch
UpsertMethod_always_post(record_id) == "POST"

\* variant: _bitable_upsert with its branches exchanged
UpsertMethod_inverted(record_id) == IF Truthy(record_id) THEN "POST" ELSE "PUT"

\* the method _bitable_upsert chooses
UpsertMethod(record_id) == IF Truthy(record_id) THEN "PUT" ELSE "POST"

\* _bitable_upsert after the search: update by id or create
_bitable_upsert(r, resp) ==
    /\ pc[r] = "upsert"
    /\ LET method == UpsertMethod(locals[r].record_id)
       IN  /\ _request_json(r, Request(method, "records",
                                     IF method = "PUT" THEN locals[r].record_id ELSE None,
                                     resp),
                          "exit", None)
           /\ bitable' = IF resp # "ok" THEN bitable
                         ELSE IF method = "PUT"
                              THEN BitableUpdated(bitable, locals[r].record_id, locals[r].fields)
                              ELSE BitableCreated(bitable, locals[r].fields)
    /\ UNCHANGED <<started, script, table_exists, github_issues, txn, row_lock, conn, now,
                   arg, result>>

\* _bitable_create: the POST of a new record, without a search
_bitable_create(r, resp) ==
    /\ pc[r] = "create"
    /\ _request_json(r, Request("POST", "records", None, resp), "exit", None)
    /\ bitable' = IF resp = "ok" THEN BitableCreated(bitable, locals[r].fields) ELSE bitable
    /\ UNCHANGED <<started, script, table_exists, github_issues, txn, row_lock, conn, now,
                   arg, result>>

-----------------------------------------------------------------------------
(* The MySQL server: table github_issues *)

\* variant: the table without its primary key
DuplicateKey_no_primary_key(rows, params) == FALSE

\* id BIGINT PRIMARY KEY: the statement's row conflicts with a stored row
DuplicateKey(rows, params) == \E i \in DOMAIN rows : rows[i].id = params.id

\* INSERT INTO github_issues (...) VALUES (...), event_received_at by its default
InsertedRow(params, timestamp) ==
    [ id |-> params.id, number |-> params.number, title |-> params.title,
      body |-> params.body, state |-> params.state, created_at |-> params.created_at,
      updated_at |-> params.updated_at, closed_at |-> params.closed_at, url |-> params.url,
      user_login |-> params.user_login, labels |-> params.labels,
      assignees |-> params.assignees, event_action |-> params.event_action,
      event_received_at |-> timestamp, payload |-> params.payload ]

\* variant: the update list without event_received_at = CURRENT_TIMESTAMP
UpdatedRow_keeps_received_at(old, params, timestamp) ==
    [old EXCEPT !.number = params.number, !.title = params.title, !.body = params.body,
                !.state = params.state, !.created_at = params.created_at,
                !.updated_at = params.updated_at, !.closed_at = params.closed_at,
                !.url = params.url, !.user_login = params.user_login,
                !.labels = params.labels, !.assignees = params.assignees,
                !.event_action = params.event_action, !.payload = params.payload]

\* variant: the update list without title = VALUES(title)
UpdatedRow_keeps_title(old, params, timestamp) ==
    [old EXCEPT !.number = params.number, !.body = params.body,
                !.state = params.state, !.created_at = params.created_at,
                !.updated_at = params.updated_at, !.closed_at = params.closed_at,
                !.url = params.url, !.user_login = params.user_login,
                !.labels = params.labels, !.assignees = params.assignees,
                !.event_action = params.event_action, !.payload = params.payload,
                !.event_received_at = timestamp]

\* ON DUPLICATE KEY UPDATE col = VALUES(col), ..., event_received_at = CURRENT_TIMESTAMP
UpdatedRow(old, params, timestamp) ==
    [old EXCEPT !.number = params.number, !.title = params.title, !.body = params.body,
                !.state = params.state, !.created_at = params.created_at,
                !.updated_at = params.updated_at, !.closed_at = params.closed_at,
                !.url = params.url, !.user_login = params.user_login,
                !.labels = params.labels, !.assignees = params.assignees,
                !.event_action = params.event_action, !.payload = params.payload,
                !.event_received_at = timestamp]

\* the effect of the INSERT ... ON DUPLICATE KEY UPDATE statement on the rows
StatementEffect(rows, params, timestamp) ==
    IF DuplicateKey(rows, params)
    THEN [op |-> "update",
          row |-> UpdatedRow(rows[CHOOSE i \in DOMAIN rows : rows[i].id = params.id],
                             params, timestamp)]
    ELSE [op |-> "insert", row |-> InsertedRow(params, timestamp)]

\* the rows once a transaction's effects are committed
Committed(rows, effects) ==
    IF effects = <<>> THEN rows
    ELSE IF effects[1].op = "insert" THEN Append(rows, effects[1].row)
    ELSE [i \in DOMAIN rows |-> IF rows[i].id = effects[1].row.id THEN effects[1].row
                                ELSE rows[i]]

Released(locks, r) == [id \in DOMAIN locks |-> IF locks[id] = r THEN 0 ELSE locks[id]]

-----------------------------------------------------------------------------
(* issue_to_mysql.py *)

\* main() up to _connect_mysql(): event path, event, statement parameters
mysql_main(r) ==
    /\ pc[r] = "main" /\ script[r] = "mysql"
    /\ IF _env_raises(environ[r], "GITHUB_EVENT_PATH") \/ "issue" \notin DOMAIN event_file[r]
       THEN Raise(r, "SystemExit")
       ELSE Continue(r, "connect", [params |-> MysqlParams(event_file[r])])
    /\ UNCHANGED <<started, script, sent, bitable, table_exists, github_issues, txn,
                   row_lock, conn, now, arg, result>>

\* _connect_mysql: the arguments are evaluated, then mysql.connector.connect
\* is called; it returns a connection or raises
_connect_mysql(r, ok) ==
    /\ pc[r] = "connect"
    /\ IF any_env_raises(environ[r], MysqlConnectRequired)
       THEN Raise(r, "SystemExit") /\ UNCHANGED conn
       ELSE /\ conn' = [conn EXCEPT ![r] = Append(@, Call("connect", ok))]
            /\ IF ok THEN Continue(r, "cursor", locals[r]) ELSE Raise(r, "Exception")
    /\ UNCHANGED <<started, script, sent, bitable, table_exists, github_issues, txn,
                   row_lock, now, arg, result>>

\* variant: commit() placed in the finally clause
RaiseInTry_commits(r) ==
    /\ pc' = [pc EXCEPT ![r] = "commit"]
    /\ raised' = [raised EXCEPT ![r] = "Exception"]
    /\ UNCHANGED <<environ, event_file, locals>>

\* an exception inside the try block: control passes to the finally clause
RaiseInTry(r) ==
    /\ pc' = [pc EXCEPT ![r] = "close"]
    /\ raised' = [raised EXCEPT ![r] = "Exception"]
    /\ UNCHANGED <<environ, event_file, locals>>

\* cursor = connection.cursor()
MysqlCursor(r, ok) ==
    /\ pc[r] = "cursor"
    /\ conn' = [conn EXCEPT ![r] = Append(@, Call("cursor", ok))]
    /\ IF ok THEN Continue(r, "ensure_schema", locals[r]) ELSE RaiseInTry(r)
    /\ UNCHANGED <<started, script, sent, bitable, table_exists, github_issues, txn,
                   row_lock, now, arg, result>>

\* _ensure_schema: CREATE TABLE IF NOT EXISTS
_ensure_schema(r, ok) ==
    /\ pc[r] = "ensure_schema"
    /\ conn' = [conn EXCEPT ![r] = Append(@, Call("execute CREATE TABLE", ok))]
    /\ IF ok THEN Continue(r, "insert", locals[r]) /\ table_exists' = TRUE
       ELSE RaiseInTry(r) /\ UNCHANGED table_exists
    /\ UNCHANGED <<started, script, sent, bitable, github_issues, txn, row_lock, now,
                   arg, result>>

\* cursor.execute(INSERT ... ON DUPLICATE KEY UPDATE ...): the statement waits
\* for the lock of its row, acts inside the run's transaction at the server's
\* time `timestamp`, or raises
MysqlInsert(r, ok, timestamp) ==
    /\ pc[r] = "insert"
    /\ conn' = [conn EXCEPT ![r] = Append(@, Call("execute INSERT", ok))]
    /\ IF ok
       THEN /\ row_lock[locals[r].params.id] \in {0, r}
            /\ timestamp >= now
            /\ now' = timestamp
            /\ row_lock' = [row_lock EXCEPT ![locals[r].params.id] = r]
            /\ txn' = [txn EXCEPT ![r] =
                         <<StatementEffect(github_issues, locals[r].params, timestamp)>>]
            /\ Continue(r, "commit", locals[r])
       ELSE /\ timestamp = now
            /\ RaiseInTry(r)
            /\ UNCHANGED <<row_lock, txn, now>>
    /\ UNCHANGED <<started, script, sent, bitable, table_exists, github_issues, arg,
                   result>>

\* connection.commit()
MysqlCommit(r, ok) ==
    /\ pc[r] = "commit"
    /\ conn' = [conn EXCEPT ![r] = Append(@, Call("commit", ok))]
    /\ IF ok
       THEN /\ github_issues' = Committed(github_issues, txn[r])
            /\ txn' = [txn EXCEPT ![r] = <<>>]
            /\ row_lock' = Released(row_lock, r)
            /\ Continue(r, "close", locals[r])
       ELSE RaiseInTry(r) /\ UNCHANGED <<github_issues, txn, row_lock>>
    /\ UNCHANGED <<started, script, sent, bitable, table_exists, now, arg, result>>

\* finally: connection.close(); what was not committed is rolled back
MysqlClose(r) ==
    /\ pc[r] = "close"
    /\ conn' = [conn EXCEPT ![r] = Append(@, Call("close", TRUE))]
    /\ txn' = [txn EXCEPT ![r] = <<>>]
    /\ row_lock' = Released(row_lock, r)
    /\ Return(r)
    /\ UNCHANGED <<started, script, sent, bitable, table_exists, github_issues, now, arg,
                   result>>

-----------------------------------------------------------------------------
(* The extractors applied to one event *)

Extract(sink) ==
    /\ arg # None
    /\ result = None
    /\ result' = IF sink = "feishu"
                 THEN [sink |-> sink, fields |-> FeishuFields(arg, "Issue ID")]
                 ELSE [sink |-> sink, params |-> MysqlParams(arg)]
    /\ UNCHANGED <<started, pc, script, environ, event_file, locals, sent, raised, bitable,
                   table_exists, github_issues, txn, row_lock, conn, now, arg>>

-----------------------------------------------------------------------------
(* Specifications *)

NoRuns ==
    /\ started = 0
    /\ pc = [r \in Procs |-> "idle"]
    /\ script = [r \in Procs |-> ""]
    /\ environ = [r \in Procs |-> <<>>]
    /\ event_file = [r \in Procs |-> None]
    /\ locals = [r \in Procs |-> None]
    /\ sent = [r \in Procs |-> <<>>]
    /\ raised = [r \in Procs |-> ""]
    /\ bitable = <<>>
    /\ table_exists = FALSE
    /\ github_issues = <<>>
    /\ txn = [r \in Procs |-> <<>>]
    /\ row_lock = [id \in IssueIds |-> 0]
    /\ conn = [r \in Procs |-> <<>>]
    /\ now = 0

Init == NoRuns /\ arg = None /\ result = None

Step(r) ==
    \/ feishu_main(r)
    \/ \E resp \in Responses : _get_tenant_token(r, resp)
    \/ \E resp \in Responses : _bitable_search(r, resp)
    \/ \E resp \in Responses : _bitable_upsert(r, resp)
    \/ \E resp \in Responses : _bitable_create(r, resp)
    \/ mysql_main(r)
    \/ \E ok \in BOOLEAN : _connect_mysql(r, ok)
    \/ \E ok \in BOOLEAN : MysqlCursor(r, ok)
    \/ \E ok \in BOOLEAN : _ensure_schema(r, ok)
    \/ \E ok \in BOOLEAN, timestamp \in 0..MaxClock : MysqlInsert(r, ok, timestamp)
    \/ \E ok \in BOOLEAN : MysqlCommit(r, ok)
    \/ MysqlClose(r)

\* what a run is started with: a valid environment and any event file, or an
\* invalid environment (the event file is not looked at before the exit, except
\* that issue_to_mysql.py reads it before the MYSQL_ variables)
StartInputs(script_name) ==
    (ValidEnvironments(script_name) \X Events)
    \cup (InvalidEnvironments(script_name) \X {Event(7, 1)})

StartAny(r) ==
    \E script_name \in {"feishu", "mysql"} :
        \E input \in StartInputs(script_name) :
            Start(r, script_name, input[1], input[2])

\* runs started by an external scheduler at any times, two at once at most
Next ==
    \/ \E r \in Procs : started < MaxOverlapping /\ StartAny(r)
    \/ \E r \in Procs : Step(r)

Spec == Init /\ [][Next]_vars

\* runs one after the other: a run starts when no other is in flight
SeqNext ==
    \/ \E r \in Procs : started < MaxRuns /\ (\A q \in Procs : ~InFlight(q)) /\ StartAny(r)
    \/ \E r \in Procs : Step(r)

SeqSpec == Init /\ [][SeqNext]_vars

ExtractInit == NoRuns /\ arg \in ExtractorInputs /\ result = None

ExtractNext == \E sink \in {"feishu", "mysql"} : Extract(sink)

ExtractSpec == ExtractInit /\ [][ExtractNext]_vars

-----------------------------------------------------------------------------
(* Properties of the field extractor, checked under ExtractSpec *)

\* the non-empty values of `key` among `dicts`, in order
NonEmptyNames(dicts, key) ==
    LET kept == SelectSeq(dicts, LAMBDA d : key \in DOMAIN d /\ d[key] # None
                                            /\ d[key].str # <<>>)
    IN  [i \in DOMAIN kept |-> kept[i][key].str]

RECURSIVE TotalLen(_)
TotalLen(parts) == IF parts = <<>> THEN 0 ELSE Len(Head(parts)) + TotalLen(Tail(parts))

\* `text` is the character sequences `parts` in order with ", " between them
IsJoined(text, parts) ==
    LET at(i) == TotalLen(SubSeq(parts, 1, i - 1)) + 2 * (i - 1)
    IN  /\ Len(text) = TotalLen(parts) + 2 * (Len(parts) - 1)
        /\ \A i \in DOMAIN parts :
              /\ SubSeq(text, at(i) + 1, at(i) + Len(parts[i])) = parts[i]
              /\ i > 1 => text[at(i) - 1] = "," /\ text[at(i)] = " "

\* `field` is the joined text of `parts`, or None when there are none
IsJoinedOrNone(field, parts) ==
    IF parts = <<>> THEN field = None
    ELSE field # None /\ IsJoined(field.str, parts)

\* `field` is the JSON array text of `parts`: [] when there are none
IsJsonArray(field, parts) ==
    /\ field # None
    /\ Len(field.str) >= 2
    /\ Head(field.str) = "[" /\ field.str[Len(field.str)] = "]"
    /\ IF parts = <<>> THEN Len(field.str) = 2
       ELSE IsJoined(SubSeq(field.str, 2, Len(field.str) - 1),
                     [i \in DOMAIN parts |-> <<"\"">> \o parts[i] \o <<"\"">>])

ArgLabels == NonEmptyNames(arg.issue.labels, "name")
ArgAssignees == NonEmptyNames(arg.issue.assignees, "login")

\* C7 as claimed: in both sinks the labels and assignees fields are the
\* non-empty names joined by ", " in payload order, and null when there are none
C7_JoinedOrNullInBothSinks ==
    /\ (result # None /\ result.sink = "feishu") =>
          /\ IsJoinedOrNone(result.fields["Labels"], ArgLabels)
          /\ IsJoinedOrNone(result.fields["Assignees"], ArgAssignees)
    /\ (result # None /\ result.sink = "mysql") =>
          /\ IsJoinedOrNone(result.params.labels, ArgLabels)
          /\ IsJoinedOrNone(result.params.assignees, ArgAssignees)

\* C7 amended: the Feishu fields Labels and Assignees are the non-empty names
\* joined by ", " in payload order, None when there are none; the MySQL
\* parameters labels and assignees are the JSON array text of those names,
\* "[]" when there are none, never null
C7_JoinedInFeishuJsonInMysql ==
    /\ (result # None /\ result.sink = "feishu") =>
          /\ IsJoinedOrNone(result.fields["Labels"], ArgLabels)
          /\ IsJoinedOrNone(result.fields["Assignees"], ArgAssignees)
          /\ (ArgLabels = <<Bug.str, P1.str>>) =>
                result.fields["Labels"] = Str(<<"b", "u", "g", ",", " ", "P", "1">>)
    /\ (result # None /\ result.sink = "mysql") =>
          /\ IsJsonArray(result.params.labels, ArgLabels)
          /\ IsJsonArray(result.params.assignees, ArgAssignees)
          /\ (ArgLabels = <<>>) => result.params.labels = Str(<<"[", "]">>)

\* the Feishu extractor has produced "bug, P1" and, from two assignees of
\* which one has no login, "alice"
C7_Witness ==
    /\ result # None /\ result.sink = "feishu"
    /\ result.fields["Labels"] = Str(<<"b", "u", "g", ",", " ", "P", "1">>)
    /\ result.fields["Assignees"] = Alice
    /\ Len(arg.issue.labels) = 2 /\ Len(arg.issue.assignees) = 2

\* C8: the Body field is None for a None body, the body itself when it has at
\* most BodyLimit characters, and otherwise BodyLimit characters: the body's
\* first BodyLimit - 3 followed by "..."
C8_TruncateBody ==
    (result # None /\ result.sink = "feishu") =>
        LET value == arg.issue.body
            out == result.fields["Body"]
        IN  IF value = None THEN out = None
            ELSE IF Len(value.str) <= BodyLimit THEN out = value
            ELSE /\ out # None
                 /\ Len(out.str) = BodyLimit
                 /\ \A i \in 1..(BodyLimit - 3) : out.str[i] = value.str[i]
                 /\ \A i \in (BodyLimit - 2)..BodyLimit : out.str[i] = "."

\* a body longer than the limit has been truncated, its last kept character
\* being the marked one
C8_Witness ==
    /\ result # None /\ result.sink = "feishu"
    /\ arg.issue.body # None
    /\ Len(arg.issue.body.str) = BodyLimit + 2
    /\ arg.issue.body.str[BodyLimit - 3] = "b"
    /\ Len(result.fields["Body"].str) = BodyLimit
    /\ result.fields["Body"].str[BodyLimit - 3] = "b"

-----------------------------------------------------------------------------
(* Properties of the Feishu sink *)

Last(seq) == seq[Len(seq)]

\* the text of an issue id as the issue-id field holds it
IssueIdText(id) == IF id = 7 THEN Str(<<"7">>) ELSE Str(<<"1", "2">>)

\* the positions of the records of `table` whose issue-id field is that of `id`
RecordsOf(table, id) ==
    {i \in DOMAIN table : table[i].fields["Issue ID"] = IssueIdText(id)}

\* run r's write request is answered with success in this step
UpsertSucceeds(r) == pc[r] = "upsert" /\ pc'[r] = "exit" /\ raised'[r] = ""

\* C1: runs one after the other, upsert enabled.  A run whose write succeeds
\* finds no record for its id, sends POST and leaves exactly one; or finds the
\* one record for its id, sends PUT to that record's id and leaves exactly that
\* one, holding the run's fields.  From a table without a record for the id
\* this gives: the first run creates, every later run updates, one record.
C1_CreateOnceThenUpdate ==
    [][\A r \in Procs : UpsertSucceeds(r) =>
          LET id == locals[r].issue_id
              before == RecordsOf(bitable, id)
              after == RecordsOf(bitable', id)
              request == Last(sent'[r])
          IN  /\ before = {} =>
                    /\ request.method = "POST"
                    /\ Cardinality(after) = 1
              /\ Cardinality(before) = 1 =>
                    /\ request.method = "PUT"
                    /\ \A i \in before : /\ request.record_id = bitable[i].record_id
                                         /\ bitable'[i].fields = locals[r].fields
                    /\ after = before
                    /\ Len(bitable') = Len(bitable)]_vars

\* a second run for an issue id has updated the record the first one created
C1_Witness ==
    \E r \in Procs :
        /\ started >= 2 /\ pc[r] = "exit" /\ raised[r] = ""
        /\ Len(sent[r]) = 3 /\ sent[r][3].method = "PUT"
        /\ sent[r][3].record_id = RecordId(1)
        /\ Len(bitable) = 1
        /\ bitable[1].fields["Title"] = Str(<<"t", "2">>)

\* the rows of `rows` whose id is `id`
RowsOf(rows, id) == {i \in DOMAIN rows : rows[i].id = id}

\* C3 as claimed: whatever the sink and the value of FEISHU_UPSERT, the
\* destination holds at most one record for an issue id
C3_AtMostOnePerIdAlways ==
    \A id \in IssueIds :
        /\ Cardinality(RecordsOf(bitable, id)) <= 1
        /\ Cardinality(RowsOf(github_issues, id)) <= 1

\* a run whose write is answered with success in this step, and the id it wrote
Wrote(r, id) ==
    /\ InFlight(r) /\ pc[r] \in {"upsert", "create", "commit"}
    /\ id = (IF script[r] = "feishu" THEN locals[r].issue_id ELSE locals[r].params.id)
    /\ IF script[r] = "feishu" THEN pc'[r] = "exit" /\ raised'[r] = ""
       ELSE pc'[r] = "close" /\ raised'[r] = ""

\* C3 amended: runs one after the other.  github_issues never holds two rows
\* of one id.  The Feishu table gets a second record of an id only by a run
\* whose FEISHU_UPSERT is not "1" (or after such a run); no step removes a
\* record, and a successful write leaves at least one record for its id.
C3_AtMostOneUnlessToggleOff ==
    /\ [](\A id \in IssueIds : Cardinality(RowsOf(github_issues, id)) <= 1)
    /\ [][/\ ((\A id \in IssueIds : Cardinality(RecordsOf(bitable, id)) <= 1)
              /\ ~(\E r \in Procs : pc[r] = "create" /\ pc'[r] = "exit"))
             => (\A id \in IssueIds : Cardinality(RecordsOf(bitable', id)) <= 1)
          /\ \A id \in IssueIds :
                /\ Cardinality(RecordsOf(bitable', id)) >= Cardinality(RecordsOf(bitable, id))
                /\ Cardinality(RowsOf(github_issues', id))
                      >= Cardinality(RowsOf(github_issues, id))
          /\ \A r \in Procs, id \in IssueIds : Wrote(r, id) =>
                IF script[r] = "feishu" THEN Cardinality(RecordsOf(bitable', id)) >= 1
                ELSE Cardinality(RowsOf(github_issues', id)) = 1]_vars

\* github_issues holds two rows, and the older one was written again after
\* the newer one was inserted: two writes of its id, one row
C3_Witness ==
    /\ Len(github_issues) = 2
    /\ github_issues[1].id # github_issues[2].id
    /\ github_issues[1].event_received_at > github_issues[2].event_received_at
    /\ \A r \in Procs : ~InFlight(r)

\* C4: overlapping runs.  A run whose search returned no record sends POST,
\* and when the service answers with success the table has one more record,
\* with the run's fields, whatever the table has come to hold since the search
C4_EmptySearchAlwaysCreates ==
    [][\A r \in Procs : (UpsertSucceeds(r) /\ locals[r].record_id = None) =>
          /\ Last(sent'[r]).method = "POST"
          /\ Len(bitable') = Len(bitable) + 1
          /\ Last(bitable').fields = locals[r].fields
          /\ \A i \in DOMAIN bitable : bitable'[i] = bitable[i]]_vars

\* two runs with upsert enabled have both searched, both sent POST, and the
\* table holds two records for the one issue id
C4_Witness ==
    /\ \A r \in Procs :
          /\ pc[r] = "exit" /\ raised[r] = "" /\ Len(sent[r]) = 3
          /\ sent[r][2].endpoint = "records/search"
          /\ sent[r][3].method = "POST"
    /\ Len(bitable) = 2
    /\ bitable[1].fields["Issue ID"] = bitable[2].fields["Issue ID"]

\* the record id a search of `table` for `id` must return
FirstRecordId(table, id) ==
    IF RecordsOf(table, id) = {} THEN None
    ELSE table[CHOOSE i \in RecordsOf(table, id) : \A j \in RecordsOf(table, id) : i <= j].record_id

C9_Order(r) ==
    LET s == sent[r]
        upsert_run == Len(s) >= 2 /\ s[2].endpoint = "records/search"
    IN  script[r] = "feishu" =>
        /\ Len(s) <= 3
        /\ \A i \in DOMAIN s : i < Len(s) => s[i].response = "ok"
        /\ Len(s) >= 1 => s[1].method = "POST" /\ s[1].endpoint = "tenant_access_token"
        /\ Len(s) >= 2 => s[2].method = "POST" /\ s[2].endpoint \in {"records/search", "records"}
        /\ Len(s) = 3 =>
              /\ upsert_run /\ s[3].endpoint = "records" /\ s[3].method \in {"PUT", "POST"}
              /\ s[3].method = "PUT" <=> s[3].record_id # None
        /\ Cardinality({i \in DOMAIN s : s[i].endpoint = "records"}) <= 1
        /\ (s # <<>> /\ Last(s).response # "ok") => pc[r] = "exit" /\ raised[r] = "SystemExit"
        /\ pc[r] = "token" => s = <<>>
        /\ pc[r] = "search" => Len(s) = 1
        /\ pc[r] = "upsert" => Len(s) = 2 /\ upsert_run
        /\ (pc[r] = "exit" /\ raised[r] = "" /\ upsert_run) => Len(s) = 3

C9_Steps(r) ==
    /\ pc'[r] = pc[r] => sent'[r] = sent[r]
    /\ (pc[r] = "search" /\ pc'[r] = "upsert") =>
          locals'[r].record_id = FirstRecordId(bitable, locals[r].issue_id)
    /\ (pc[r] = "upsert" /\ pc'[r] # pc[r]) =>
          /\ sent'[r] = Append(sent[r], Last(sent'[r]))
          /\ Last(sent'[r]).record_id = locals[r].record_id
          /\ Last(sent'[r]).method = IF locals[r].record_id # None THEN "PUT" ELSE "POST"
    /\ (InFlight(r) /\ pc'[r] # pc[r] /\ script[r] = "feishu" /\ pc[r] # "main") =>
          /\ Len(sent'[r]) = Len(sent[r]) + 1
          /\ SubSeq(sent'[r], 1, Len(sent[r])) = sent[r]

\* C9: a Feishu run with upsert enabled sends token, search, write in this
\* order, each after the answer to the one before was a success; the write is
\* PUT to the record id the search returned, POST when it returned none; an
\* answer that is not a success ends the run by SystemExit with no further
\* request; no request is sent twice and at most one write is sent
C9_TokenSearchWrite ==
    /\ [](\A r \in Procs : C9_Order(r))
    /\ [][\A r \in Procs : C9_Steps(r)]_vars

\* a run whose token and search succeeded and whose PUT was answered with a
\* non-zero code
C9_Witness ==
    \E r \in Procs :
        /\ pc[r] = "exit" /\ raised[r] = "SystemExit"
        /\ Len(sent[r]) = 3
        /\ sent[r][3].method = "PUT" /\ sent[r][3].response = "code_nonzero"

-----------------------------------------------------------------------------
(* Properties of the MySQL sink *)

ValueColumns ==
    {"number", "title", "body", "state", "created_at", "updated_at", "closed_at", "url",
     "user_login", "labels", "assignees", "event_action", "payload"}

\* every column of `row` other than id and event_received_at is that of `params`
ColumnsFrom(row, params) == \A c \in ValueColumns : row[c] = params[c]

\* run r's commit returns in this step
CommitSucceeds(r) == pc[r] = "commit" /\ pc'[r] = "close" /\ raised'[r] = ""

\* C2: runs one after the other.  When a run's commit returns, github_issues
\* holds exactly one row with the run's issue id, every other column of it is
\* the value derived from the run's event, and its event_received_at is the
\* server time of the run's statement, whether the row was there before or not
C2_OneRowFromLatestEvent ==
    [][\A r \in Procs : CommitSucceeds(r) =>
          LET params == locals[r].params
              after == RowsOf(github_issues', params.id)
          IN  /\ Cardinality(after) = 1
              /\ \A i \in after :
                    /\ ColumnsFrom(github_issues'[i], params)
                    /\ github_issues'[i].event_received_at = now
                    /\ \A j \in RowsOf(github_issues, params.id) :
                          github_issues[j].event_received_at <= now
              /\ Len(github_issues') =
                    Len(github_issues) + (IF RowsOf(github_issues, params.id) = {} THEN 1 ELSE 0)
       ]_vars

\* a second run for an issue id has executed its statement at a later server
\* time, against the row the first run committed from another event
C2_Witness ==
    \E r \in Procs :
        /\ pc[r] = "commit" /\ started = 2
        /\ Len(github_issues) = 1
        /\ github_issues[1].id = locals[r].params.id
        /\ github_issues[1].title # locals[r].params.title
        /\ github_issues[1].closed_at # locals[r].params.closed_at
        /\ github_issues[1].event_received_at < now

\* every row is the only one of its id and has all its value columns from one event
C5_RowsWhole ==
    \A i \in DOMAIN github_issues :
        /\ RowsOf(github_issues, github_issues[i].id) = {i}
        /\ \E e \in Events :
              /\ "issue" \in DOMAIN e
              /\ e.issue.id = github_issues[i].id
              /\ github_issues[i].title = e.issue.title
              /\ github_issues[i].number = e.issue.number
              /\ ColumnsFrom(github_issues[i], MysqlParams(e))

\* C5: overlapping runs.  github_issues holds one row per issue id at most,
\* every row has all its columns from one event, and when a run's commit
\* returns the row of its id has them from that run's event
C5_LastWriteWinsWhole ==
    /\ []C5_RowsWhole
    /\ [][\A r \in Procs : CommitSucceeds(r) =>
             \A i \in RowsOf(github_issues', locals[r].params.id) :
                 ColumnsFrom(github_issues'[i], locals[r].params)]_vars

\* two overlapping runs for one issue id, from different events, have both
\* committed: one row
C5_Witness ==
    /\ \A r \in Procs :
          /\ pc[r] = "close" /\ raised[r] = ""
          /\ Last(conn[r]) = Call("commit", TRUE)
    /\ locals[1].params.id = locals[2].params.id
    /\ locals[1].params.title # locals[2].params.title
    /\ Len(github_issues) = 1

\* the required variables of each script, as the claim lists them
C6_Required(script_name) ==
    IF script_name = "feishu"
    THEN {"GITHUB_EVENT_PATH", "FEISHU_APP_ID", "FEISHU_APP_SECRET", "FEISHU_APP_TOKEN",
          "FEISHU_TABLE_ID"}
    ELSE {"GITHUB_EVENT_PATH", "MYSQL_HOST", "MYSQL_USER", "MYSQL_PASSWORD", "MYSQL_DATABASE"}

\* run r is in flight with a required variable unset or empty, or with an
\* event that has no "issue" key
C6_FailsValidation(r) ==
    /\ InFlight(r)
    /\ \/ \E n \in C6_Required(script[r]) : n \notin DOMAIN environ[r] \/ environ[r][n] = ""
       \/ "issue" \notin DOMAIN event_file[r]

ConnCalls == <<"connect", "cursor", "execute CREATE TABLE", "execute INSERT", "commit", "close">>

C10_Calls(r) ==
    LET calls == conn[r]
    IN  /\ \A i \in DOMAIN calls :
              /\ calls[i].call = "commit" =>
                    /\ i = 5
                    /\ \A j \in 1..4 : calls[j].ok /\ calls[j].call = ConnCalls[j]
              /\ ~calls[i].ok => \A j \in DOMAIN calls : j > i =>
                                     calls[j].call = "close" /\ calls[1].ok
              /\ calls[i].call = "close" => i = Len(calls) /\ calls[1] = Call("connect", TRUE)
        /\ Cardinality({i \in DOMAIN calls : calls[i].call = "close"}) <= 1
        /\ (pc[r] = "exit" /\ calls # <<>> /\ calls[1] = Call("connect", TRUE)) =>
              /\ Last(calls) = Call("close", TRUE)
              /\ raised[r] = "Exception" <=> \E i \in DOMAIN calls : ~calls[i].ok
        /\ (pc[r] = "exit" /\ calls # <<>> /\ ~calls[1].ok) => raised[r] = "Exception"

\* C10: commit() is called only after cursor(), the CREATE TABLE and the INSERT
\* returned; after a call that raised, no call but close() follows and the run
\* ends by that exception; github_issues changes only in a step in which a
\* commit() returns; a run that opened a connection ends having called close()
\* once, as its last call
C10_CommitOnlyAfterSuccess ==
    /\ [](\A r \in Procs : C10_Calls(r))
    /\ [][github_issues' # github_issues =>
             \E r \in Procs : /\ pc[r] = "commit"
                              /\ Len(conn[r]) = 4
                              /\ conn'[r] = Append(conn[r], Call("commit", TRUE))]_vars

\* a run whose INSERT raised has closed its connection without a commit, and
\* the row another run committed is as it was
C10_Witness ==
    \E r \in Procs :
        /\ pc[r] = "exit" /\ raised[r] = "Exception"
        /\ conn[r] = <<Call("connect", TRUE), Call("cursor", TRUE),
                       Call("execute CREATE TABLE", TRUE), Call("execute INSERT", FALSE),
                       Call("close", TRUE)>>
        /\ Len(github_issues) = 1
        /\ started = 2

====
